---- MODULE Spec2Model ----
(***************************************************************************)
(* Model of the card battler's combat engine: StatusManager                *)
(* (status_effects.py), Card (card.py), Deck (deck.py), Character / Player *)
(* / Enemy (character.py) and Combat (combat.py).                          *)
(*                                                                         *)
(* Every method is an operator from the objects it reads to the objects it *)
(* leaves behind (a set of them where random.shuffle makes the outcome a   *)
(* choice); every public call is one action that applies the operator of   *)
(* the whole call.  The variable `layer` says which interface the host     *)
(* drives in a run: the Combat commands, a long combat driven as Game      *)
(* drives it, a free-standing Deck, Character or StatusManager, or a Card. *)
(***************************************************************************)
EXTENDS Integers, Sequences, FiniteSets, TLC

VARIABLES layer, state, turn_number, player, enemies, deck, log, acted, last

vars == <<layer, state, turn_number, player, enemies, deck, log, acted, last>>

(***************************************************************************)
(* Bounds of the model.                                                    *)
(***************************************************************************)
\* Combat.turn_number is not bounded by the code; the model stops starting
\* player turns at MaxTurn.
MaxTurn == 3
\* Largest amount / count a host passes to take_damage, gain_block, heal.
MaxAmount == 4
\* Largest count passed to Deck.draw by the host of a free-standing deck.
MaxCount == 3
\* A free-standing deck is built from at most MaxDeckCards cards.
MaxDeckCards == 3
\* gain_block is not called by the host once block has reached MaxBlock.
MaxBlock == 5
\* The last round whose enemy phase the host of a long combat plays.
MaxRound == 12
\* Largest cost, damage, block and upgrade delta of the cards a host builds.
MaxCardValue == 2
\* Longest duration the host of a status manager passes to add_status.
MaxDuration == 3
\* The host of a status manager stacks an amount no higher than MaxStack.
MaxStack == 5
\* The largest max_hp of a player whose turns are only ended.
MaxSiegeHp == 40

(***************************************************************************)
(* Program constants.                                                      *)
(***************************************************************************)
starting_hand_size == 5
cards_to_draw == 5
default_max_energy == 3

(***************************************************************************)
(* Python arithmetic and list helpers.                                     *)
(***************************************************************************)
Min(a, b) == IF a <= b THEN a ELSE b
Max(a, b) == IF a >= b THEN a ELSE b

\* int(n * num / den) for the float factors 1.5 = 3/2 and 0.75 = 3/4, which are
\* exact in binary floating point: int() truncates toward zero.
IntMul(n, num, den) ==
    IF n * num >= 0 THEN (n * num) \div den ELSE -((-(n * num)) \div den)

Range(s) == {s[i] : i \in 1..Len(s)}

\* list.remove(x): drops the first element equal to x.
RECURSIVE ListRemove(_, _)
ListRemove(s, x) ==
    IF s = <<>> THEN <<>>
    ELSE IF Head(s) = x THEN Tail(s)
    ELSE <<Head(s)>> \o ListRemove(Tail(s), x)

\* x in list
ListHas(s, x) == \E i \in 1..Len(s) : s[i] = x

\* random.shuffle(list): any permutation of the list; the first element is any
\* element of the list and the rest any permutation of the others.
RECURSIVE Shuffles(_)
Shuffles(s) ==
    IF s = <<>> THEN {<<>>}
    ELSE UNION {{<<x>> \o t : t \in Shuffles(ListRemove(s, x))} : x \in Range(s)}

(***************************************************************************)
(* status_effects.py                                                       *)
(***************************************************************************)
STRENGTH == "strength"
DEXTERITY == "dexterity"
METALLICIZE == "metallicize"
BARRICADE == "barricade"
DEMON_FORM == "demon_form"
VULNERABLE == "vulnerable"
WEAK == "weak"
FRAIL == "frail"
POISON == "poison"
BURN == "burn"

StatusNames ==
    {STRENGTH, DEXTERITY, METALLICIZE, BARRICADE, DEMON_FORM,
     VULNERABLE, WEAK, FRAIL, POISON, BURN}

\* An absent key of StatusManager.effects.
Absent == [on |-> FALSE, amount |-> 0, duration |-> 0]

\* StatusEffect(name, amount, duration)
StatusEffect(amount, duration) ==
    [on |-> TRUE, amount |-> amount, duration |-> duration]

\* StatusManager(): effects = {}
StatusManager == [n \in StatusNames |-> Absent]

\* An add_status that takes every incoming duration > 0, shorter or longer.
add_status_Overwrite(effects, name, amount, duration) ==
    IF effects[name].on
    THEN [effects EXCEPT ![name] =
            [on |-> TRUE,
             amount |-> @.amount + amount,
             duration |-> IF duration > 0 THEN duration ELSE @.duration]]
    ELSE [effects EXCEPT ![name] = StatusEffect(amount, duration)]

add_status(effects, name, amount, duration) ==
    IF effects[name].on
    THEN [effects EXCEPT ![name] =
            [on |-> TRUE,
             amount |-> @.amount + amount,
             duration |-> IF duration > 0 /\ (@.duration < 0 \/ duration < @.duration)
                          THEN duration ELSE @.duration]]
    ELSE [effects EXCEPT ![name] = StatusEffect(amount, duration)]

remove_status(effects, name) == [effects EXCEPT ![name] = Absent]

get_status_amount(effects, name) ==
    IF effects[name].on THEN effects[name].amount ELSE 0

has_status(effects, name) == effects[name].on

\* StatusEffect.tick for every entry, then the expired entries are deleted.
tick_all(effects) ==
    [n \in StatusNames |->
        IF effects[n].on /\ effects[n].duration > 0
        THEN IF effects[n].duration - 1 <= 0
             THEN Absent
             ELSE [effects[n] EXCEPT !.duration = @ - 1]
        ELSE effects[n]]

(***************************************************************************)
(* character.py: Character                                                 *)
(***************************************************************************)
\* Character.__init__ (Player.__init__ then sets energy and max_energy).
Character(name, max_hp) ==
    [name |-> name, max_hp |-> max_hp, current_hp |-> max_hp, block |-> 0,
     status_manager |-> StatusManager, energy |-> 0,
     max_energy |-> default_max_energy, damage_dealt_this_turn |-> 0]

\* take_damage without the check that follows the subtraction.
FloorHp_Unchecked(hp) == hp

\* The HP floor at the end of take_damage.
FloorHp(hp) == IF hp < 0 THEN 0 ELSE hp

\* The 50% increase applied whether or not the character is vulnerable.
VulnerableAmount_Always(c, amount) == IntMul(amount, 3, 2)

\* The incoming amount of a blocked hit, after the Vulnerable modifier.
VulnerableAmount(c, amount) ==
    IF get_status_amount(c.status_manager, VULNERABLE) > 0
    THEN IntMul(amount, 3, 2) ELSE amount

\* A take_damage that leaves the block standing when the hit goes through it.
take_damage_BlockKept(c, amount, ignore_block) ==
    LET amt == IF ignore_block THEN amount ELSE VulnerableAmount(c, amount)
        actual_damage == IF ignore_block THEN amount
                         ELSE IF c.block >= amt THEN 0 ELSE amt - c.block
        block == IF ~ignore_block /\ c.block >= amt THEN c.block - amt ELSE c.block
    IN [c |-> [c EXCEPT !.block = block,
                        !.current_hp = FloorHp(c.current_hp - actual_damage)],
        ret |-> actual_damage]

\* Character.take_damage: the character afterwards and the value returned.
take_damage(c, amount, ignore_block) ==
    LET amt == IF ignore_block THEN amount ELSE VulnerableAmount(c, amount)
        absorbed == ~ignore_block /\ c.block >= amt
        actual_damage == IF ignore_block THEN amount
                         ELSE IF absorbed THEN 0 ELSE amt - c.block
        block == IF ignore_block THEN c.block
                 ELSE IF absorbed THEN c.block - amt ELSE 0
    IN [c |-> [c EXCEPT !.block = block,
                        !.current_hp = FloorHp(c.current_hp - actual_damage)],
        ret |-> actual_damage]

\* A gain_block that adds Dexterity first and lets Frail scale the sum.
gain_block_FrailLast(c, amount) ==
    LET dexterity == get_status_amount(c.status_manager, DEXTERITY)
        frailed == IF get_status_amount(c.status_manager, FRAIL) > 0
                   THEN IntMul(amount + dexterity, 3, 4) ELSE amount + dexterity
    IN [c EXCEPT !.block = @ + frailed]

gain_block(c, amount) ==
    LET frailed == IF get_status_amount(c.status_manager, FRAIL) > 0
                   THEN IntMul(amount, 3, 4) ELSE amount
        dexterity == get_status_amount(c.status_manager, DEXTERITY)
    IN [c EXCEPT !.block = @ + frailed + dexterity]

heal(c, amount) ==
    [c EXCEPT !.current_hp = Min(c.current_hp + amount, c.max_hp)]

is_alive(c) == c.current_hp > 0

\* get_hp_percentage() < 0.5, on the integers: current_hp / max_hp < 1/2, and
\* 0.0 < 0.5 when max_hp is not positive.
HpBelowHalf(c) == IF c.max_hp > 0 THEN 2 * c.current_hp < c.max_hp ELSE TRUE

\* A start_turn whose poison damage goes through block.
Character_start_turn_Blocked(c) ==
    LET c0 == [c EXCEPT !.damage_dealt_this_turn = 0]
        poison == get_status_amount(c0.status_manager, POISON)
    IN IF poison > 0
       THEN [take_damage(c0, poison, FALSE).c EXCEPT
                !.status_manager = add_status(@, POISON, -1, -1)]
       ELSE c0

\* Character.start_turn
Character_start_turn(c) ==
    LET c0 == [c EXCEPT !.damage_dealt_this_turn = 0]
        poison == get_status_amount(c0.status_manager, POISON)
    IN IF poison > 0
       THEN [take_damage(c0, poison, TRUE).c EXCEPT
                !.status_manager = add_status(@, POISON, -1, -1)]
       ELSE c0

\* An end_turn that keeps the block only for a Barricade amount > 0.
Character_end_turn_ByAmount(c) ==
    LET burn == get_status_amount(c.status_manager, BURN)
        c1 == IF burn > 0
              THEN [take_damage(c, burn, TRUE).c EXCEPT
                      !.status_manager = add_status(@, BURN, -1, -1)]
              ELSE c
        metallicize == get_status_amount(c1.status_manager, METALLICIZE)
        c2 == IF metallicize > 0 THEN gain_block(c1, metallicize) ELSE c1
        demon_form == get_status_amount(c2.status_manager, DEMON_FORM)
        c3 == IF demon_form > 0
              THEN [c2 EXCEPT !.status_manager = add_status(@, STRENGTH, 2, -1)]
              ELSE c2
        c4 == [c3 EXCEPT !.status_manager = tick_all(@)]
    IN IF get_status_amount(c4.status_manager, BARRICADE) <= 0
       THEN [c4 EXCEPT !.block = 0]
       ELSE c4

\* An end_turn in which every stack of Demon Form gives 1 Strength.
Character_end_turn_PerStack(c) ==
    LET burn == get_status_amount(c.status_manager, BURN)
        c1 == IF burn > 0
              THEN [take_damage(c, burn, TRUE).c EXCEPT
                      !.status_manager = add_status(@, BURN, -1, -1)]
              ELSE c
        metallicize == get_status_amount(c1.status_manager, METALLICIZE)
        c2 == IF metallicize > 0 THEN gain_block(c1, metallicize) ELSE c1
        demon_form == get_status_amount(c2.status_manager, DEMON_FORM)
        c3 == IF demon_form > 0
              THEN [c2 EXCEPT !.status_manager = add_status(@, STRENGTH, demon_form, -1)]
              ELSE c2
        c4 == [c3 EXCEPT !.status_manager = tick_all(@)]
    IN IF ~has_status(c4.status_manager, BARRICADE)
       THEN [c4 EXCEPT !.block = 0]
       ELSE c4

\* Character.end_turn
Character_end_turn(c) ==
    LET burn == get_status_amount(c.status_manager, BURN)
        c1 == IF burn > 0
              THEN [take_damage(c, burn, TRUE).c EXCEPT
                      !.status_manager = add_status(@, BURN, -1, -1)]
              ELSE c
        metallicize == get_status_amount(c1.status_manager, METALLICIZE)
        c2 == IF metallicize > 0 THEN gain_block(c1, metallicize) ELSE c1
        demon_form == get_status_amount(c2.status_manager, DEMON_FORM)
        c3 == IF demon_form > 0
              THEN [c2 EXCEPT !.status_manager = add_status(@, STRENGTH, 2, -1)]
              ELSE c2
        c4 == [c3 EXCEPT !.status_manager = tick_all(@)]
    IN IF ~has_status(c4.status_manager, BARRICADE)
       THEN [c4 EXCEPT !.block = 0]
       ELSE c4

get_damage_modifier(c) == get_status_amount(c.status_manager, STRENGTH)

\* An apply_damage_modifier that scales the base damage and adds Strength after.
apply_damage_modifier_WeakFirst(c, base_damage) ==
    LET weakened == IF get_status_amount(c.status_manager, WEAK) > 0
                    THEN IntMul(base_damage, 3, 4) ELSE base_damage
    IN Max(0, weakened + get_damage_modifier(c))

apply_damage_modifier(c, base_damage) ==
    LET damage == base_damage + get_damage_modifier(c)
        weakened == IF get_status_amount(c.status_manager, WEAK) > 0
                    THEN IntMul(damage, 3, 4) ELSE damage
    IN Max(0, weakened)

(***************************************************************************)
(* card.py: Card                                                           *)
(***************************************************************************)
\* The members of the enums CardType and CardRarity, and the string each has
\* as its value.
ATTACK == "CardType.ATTACK"
SKILL == "CardType.SKILL"
POWER == "CardType.POWER"
COMMON == "CardRarity.COMMON"
UNCOMMON == "CardRarity.UNCOMMON"
RARE == "CardRarity.RARE"

EnumValue ==
    [m \in {ATTACK, SKILL, POWER, COMMON, UNCOMMON, RARE} |->
        CASE m = ATTACK -> "attack" [] m = SKILL -> "skill" [] m = POWER -> "power"
          [] m = COMMON -> "common" [] m = UNCOMMON -> "uncommon" [] m = RARE -> "rare"]

\* CardType(value) and CardRarity(value): the member with that value.
CardType(value) == CHOOSE m \in {ATTACK, SKILL, POWER} : EnumValue[m] = value
CardRarity(value) == CHOOSE m \in {COMMON, UNCOMMON, RARE} : EnumValue[m] = value

\* A Card instance.  The dataclass compares by value, and so do these records;
\* status_effects is the dict as a set of <<name, amount>> pairs, and the
\* description, which nothing reads, is left empty.
Card(name, card_type, cost, damage, block, card_draw, status_effects, up_damage, up_block) ==
    [name |-> name, card_type |-> card_type, cost |-> cost, description |-> "",
     rarity |-> COMMON, damage |-> damage, block |-> block,
     energy_gain |-> 0, card_draw |-> card_draw,
     status_effects |-> status_effects, upgraded |-> FALSE,
     upgrade_damage |-> up_damage, upgrade_block |-> up_block,
     upgrade_cost_reduction |-> 0]

\* A get_cost without the floor at 0.
get_cost_Unclamped(card) ==
    card.cost - (IF card.upgraded THEN card.upgrade_cost_reduction ELSE 0)

get_cost(card) ==
    Max(0, card.cost - (IF card.upgraded THEN card.upgrade_cost_reduction ELSE 0))

get_damage(card) ==
    card.damage + (IF card.upgraded THEN card.upgrade_damage ELSE 0)

get_block(card) ==
    card.block + (IF card.upgraded THEN card.upgrade_block ELSE 0)

upgrade(card) == [card EXCEPT !.upgraded = TRUE]

\* A to_dict that writes the base cost, damage and block.
to_dict_Base(card) ==
    [name |-> card.name, card_type |-> EnumValue[card.card_type],
     cost |-> card.cost, description |-> card.description,
     rarity |-> EnumValue[card.rarity], damage |-> card.damage,
     block |-> card.block, energy_gain |-> card.energy_gain,
     card_draw |-> card.card_draw, status_effects |-> card.status_effects,
     upgraded |-> card.upgraded]

\* Card.to_dict: the flat record, with the enums as their values and the
\* cost, damage and block as the getters give them.
to_dict(card) ==
    [name |-> card.name, card_type |-> EnumValue[card.card_type],
     cost |-> get_cost(card), description |-> card.description,
     rarity |-> EnumValue[card.rarity], damage |-> get_damage(card),
     block |-> get_block(card), energy_gain |-> card.energy_gain,
     card_draw |-> card.card_draw, status_effects |-> card.status_effects,
     upgraded |-> card.upgraded]

\* Card.from_dict(data), for a dict with every key: the three upgrade_ fields
\* are not passed and take the dataclass default 0.
from_dict(data) ==
    [name |-> data.name, card_type |-> CardType(data.card_type),
     cost |-> data.cost, description |-> data.description,
     rarity |-> CardRarity(data.rarity), damage |-> data.damage,
     block |-> data.block, energy_gain |-> data.energy_gain,
     card_draw |-> data.card_draw, status_effects |-> data.status_effects,
     upgraded |-> data.upgraded, upgrade_damage |-> 0, upgrade_block |-> 0,
     upgrade_cost_reduction |-> 0]

\* CardLibrary.get_all_cards: the cards the model plays with.
Strike == Card("Strike", ATTACK, 1, 6, 0, 0, {}, 3, 0)
Bash == Card("Bash", ATTACK, 2, 8, 0, 0, {<<VULNERABLE, 2>>}, 2, 0)
Defend == Card("Defend", SKILL, 1, 0, 5, 0, {}, 0, 3)
ShrugItOff == Card("Shrug It Off", SKILL, 1, 0, 8, 1, {}, 0, 3)
Metallicize ==
    [Card("Metallicize", POWER, 1, 0, 0, 0, {<<METALLICIZE, 3>>}, 0, 0) EXCEPT
        !.rarity = UNCOMMON]
Barricade ==
    [Card("Barricade", POWER, 3, 0, 0, 0, {<<BARRICADE, 1>>}, 0, 0) EXCEPT
        !.rarity = RARE]
DemonForm ==
    [Card("Demon Form", POWER, 3, 0, 0, 0, {<<DEMON_FORM, 1>>}, 0, 0) EXCEPT
        !.rarity = RARE]

\* A card a caller builds with the two fields no card of the library sets:
\* Card(name="Surge", cost=2, damage=4, energy_gain=1, upgrade_damage=2,
\* upgrade_cost_reduction=1).
Surge ==
    [Card("Surge", ATTACK, 2, 4, 0, 0, {}, 2, 0) EXCEPT
        !.energy_gain = 1, !.upgrade_cost_reduction = 1]

\* A card a caller builds that grants Poison, which no card of the library
\* does: Card(name="Venom", card_type=CardType.SKILL, cost=1,
\* status_effects={'poison': 6}).
Venom == Card("Venom", SKILL, 1, 0, 0, 0, {<<POISON, 6>>}, 0, 0)

(***************************************************************************)
(* deck.py: Deck                                                           *)
(***************************************************************************)
\* Deck(cards): the cards shuffled into the draw pile.
Deck(cards) ==
    {[draw_pile |-> d, discard_pile |-> <<>>, hand |-> <<>>, exhaust_pile |-> <<>>] :
        d \in Shuffles(cards)}

\* A reshuffle that copies the discard pile and does not clear it.
Reshuffle_NoClear(d) ==
    {[d EXCEPT !.draw_pile = s] : s \in Shuffles(d.discard_pile)}

\* A reshuffle that takes the hand along with the discard pile.
Reshuffle_WithHand(d) ==
    {[d EXCEPT !.draw_pile = s, !.discard_pile = <<>>, !.hand = <<>>] :
        s \in Shuffles(d.discard_pile \o d.hand)}

\* The reshuffle of Deck.draw: the discard pile becomes the shuffled draw pile.
Reshuffle(d) ==
    {[d EXCEPT !.draw_pile = s, !.discard_pile = <<>>] : s \in Shuffles(d.discard_pile)}

\* A draw that puts the card in the hand and forgets to track it.
DrawOne_Untracked(o) ==
    [deck |-> [o.deck EXCEPT !.draw_pile = Tail(@),
                             !.hand = Append(@, Head(o.deck.draw_pile))],
     drawn |-> o.drawn]

\* One card from the top of the draw pile into the hand.
DrawOne(o) ==
    [deck |-> [o.deck EXCEPT !.draw_pile = Tail(@),
                             !.hand = Append(@, Head(o.deck.draw_pile))],
     drawn |-> Append(o.drawn, Head(o.deck.draw_pile))]

\* The loop of Deck.draw with `count` iterations left: every [deck, drawn] it
\* can end with; x is the deck and the list after one more card.
RECURSIVE DrawLoop(_, _)
DrawLoop(o, count) ==
    IF count <= 0 THEN {o}
    ELSE IF o.deck.draw_pile = <<>>
         THEN IF o.deck.discard_pile # <<>>
              THEN UNION {DrawLoop(DrawOne([o EXCEPT !.deck = r]), count - 1) :
                            r \in Reshuffle(o.deck)}
              ELSE {o}
         ELSE UNION {DrawLoop(x, count - 1) : x \in {DrawOne(o)}}

\* Deck.draw(count)
draw(d, count) == DrawLoop([deck |-> d, drawn |-> <<>>], count)

discard_hand(d) ==
    [d EXCEPT !.discard_pile = @ \o d.hand, !.hand = <<>>]

\* A discard_card that puts the card on the exhaust pile.
discard_card_Exhausted(d, card) ==
    IF ListHas(d.hand, card)
    THEN [d EXCEPT !.hand = ListRemove(@, card), !.exhaust_pile = Append(@, card)]
    ELSE d

discard_card(d, card) ==
    IF ListHas(d.hand, card)
    THEN [d EXCEPT !.hand = ListRemove(@, card), !.discard_pile = Append(@, card)]
    ELSE d

exhaust_card(d, card) ==
    IF ListHas(d.hand, card)
    THEN [d EXCEPT !.hand = ListRemove(@, card), !.exhaust_pile = Append(@, card)]
    ELSE d

add_card(d, card, to_draw_pile) ==
    IF to_draw_pile
    THEN [d EXCEPT !.draw_pile = Append(@, card)]
    ELSE [d EXCEPT !.discard_pile = Append(@, card)]

remove_card(d, card) ==
    [d EXCEPT !.draw_pile = ListRemove(@, card),
              !.discard_pile = ListRemove(@, card),
              !.hand = ListRemove(@, card)]

get_total_cards(d) == Len(d.draw_pile) + Len(d.discard_pile) + Len(d.hand)

\* A reset_for_combat that takes the exhausted cards back as well.
reset_for_combat_Unexhaust(d) ==
    {[d EXCEPT !.draw_pile = s, !.discard_pile = <<>>, !.hand = <<>>,
               !.exhaust_pile = <<>>] :
        s \in Shuffles(d.draw_pile \o d.discard_pile \o d.hand \o d.exhaust_pile)}

reset_for_combat(d) ==
    {[d EXCEPT !.draw_pile = s, !.discard_pile = <<>>, !.hand = <<>>] :
        s \in Shuffles(d.draw_pile \o d.discard_pile \o d.hand)}

(***************************************************************************)
(* character.py: Player                                                    *)
(***************************************************************************)
\* Player.__init__
Player(name, max_hp, max_energy) ==
    [Character(name, max_hp) EXCEPT !.max_energy = max_energy, !.energy = max_energy]

\* A start_combat that draws no starting hand.
start_combat_NoHand(p, d) ==
    {[player |-> [p EXCEPT !.energy = p.max_energy, !.block = 0], deck |-> r] :
        r \in reset_for_combat(d)}

\* Player.start_combat: every [player, deck] it can end with.
start_combat(p, d) ==
    {[player |-> [p EXCEPT !.energy = p.max_energy, !.block = 0], deck |-> o.deck] :
        o \in UNION {draw(r, starting_hand_size) : r \in reset_for_combat(d)}}

\* Player.start_turn
Player_start_turn(p, d) ==
    {[player |-> [Character_start_turn(p) EXCEPT !.energy = p.max_energy],
      deck |-> o.deck] : o \in draw(d, cards_to_draw)}

\* An end_turn of the player that leaves the block standing.
Player_end_turn_BlockKept(p, d) ==
    [player |-> [Character_end_turn(p) EXCEPT !.block = p.block],
     deck |-> discard_hand(d)]

\* Player.end_turn
Player_end_turn(p, d) ==
    [player |-> Character_end_turn(p), deck |-> discard_hand(d)]

\* One entry of a result's 'effects' list.
Effect(type, target, amount, total, status) ==
    [type |-> type, target |-> target, amount |-> amount, total |-> total,
     status |-> status]

\* A loop over card.status_effects that adds nothing.
AddAll_Skipped(effects, items) == effects

\* A loop over card.status_effects that grants every status for one turn.
RECURSIVE AddAll_OneTurn(_, _)
AddAll_OneTurn(effects, items) ==
    IF items = {} THEN effects
    ELSE LET it == CHOOSE x \in items : TRUE
         IN AddAll_OneTurn(add_status(effects, it[1], it[2], 1), items \ {it})

\* add_status(status_name, amount) for every item of card.status_effects.
RECURSIVE AddAll(_, _)
AddAll(effects, items) ==
    IF items = {} THEN effects
    ELSE LET it == CHOOSE x \in items : TRUE
         IN AddAll(add_status(effects, it[1], it[2], -1), items \ {it})

\* The 'status' entries of the result, one per item of card.status_effects.
RECURSIVE StatusEffects(_, _)
StatusEffects(items, who) ==
    IF items = {} THEN <<>>
    ELSE LET it == CHOOSE x \in items : TRUE
         IN <<Effect("status", who, it[2], 0, it[1])>> \o StatusEffects(items \ {it}, who)

\* An energy check that lets every card through.
EnoughEnergy_Always(p, card) == TRUE

\* The energy check of Player.play_card.
EnoughEnergy(p, card) == p.energy >= get_cost(card)

\* A play_card that spends the energy it has before it validates.
NotPlayed_Spent(p, d, card, target, message) ==
    [success |-> FALSE, message |-> message,
     player |-> [p EXCEPT !.energy = Max(0, @ - get_cost(card))], deck |-> d,
     target |-> target, effects |-> <<>>]

\* The result of a play_card that fails a validation: the objects are as they
\* were on entry.
NotPlayed(p, d, card, target, message) ==
    [success |-> FALSE, message |-> message, player |-> p, deck |-> d,
     target |-> target, effects |-> <<>>]

\* A draw effect that comes after the played card has gone to the discard pile.
DrawFrom_Discarded(d, card) == discard_card(d, card)

\* The deck as the draw effect of play_card finds it: discard_card comes last,
\* so the played card is still in the hand.
DrawFrom(d, card) == d

\* A damage step that finds the card's statuses on the target already.
HitTarget_Granted(target, card) ==
    [target EXCEPT !.status_manager = AddAll(@, card.status_effects)]

\* The target as the damage step of play_card finds it: the loop over
\* card.status_effects comes later, so it is the target as passed.
HitTarget(target, card) == target

\* Player.play_card(card, target); has_target is `target is not None`.  Every
\* [success, message, player, deck, target, effects] it can end with.
Player_play_card(p, d, card, has_target, target) ==
    IF ~ListHas(d.hand, card)
    THEN {NotPlayed(p, d, card, target, "Card not in hand")}
    ELSE IF ~EnoughEnergy(p, card)
    THEN {NotPlayed(p, d, card, target, "Not enough energy")}
    ELSE
      LET p1 == [p EXCEPT !.energy = @ - get_cost(card)]
          damage == get_damage(card)
          block == get_block(card)
          actual_damage == apply_damage_modifier(p1, damage)
          hit == damage > 0 /\ has_target
          td == take_damage(HitTarget(target, card), actual_damage, FALSE)
          t1 == IF hit THEN td.c ELSE target
          e1 == IF hit THEN <<Effect("damage", target.name, td.ret, 0, "")>> ELSE <<>>
          p2 == IF hit THEN [p1 EXCEPT !.damage_dealt_this_turn = @ + actual_damage]
                ELSE p1
          p3 == IF block > 0 THEN gain_block(p2, block) ELSE p2
          e2 == IF block > 0 THEN <<Effect("block", p.name, block, p3.block, "")>>
                ELSE <<>>
          p4 == IF card.energy_gain > 0 THEN [p3 EXCEPT !.energy = @ + card.energy_gain]
                ELSE p3
          e3 == IF card.energy_gain > 0
                THEN <<Effect("energy", p.name, card.energy_gain, 0, "")>> ELSE <<>>
          draws == IF card.card_draw > 0 THEN draw(DrawFrom(d, card), card.card_draw)
                   ELSE {[deck |-> d, drawn |-> <<>>]}
          t2 == IF has_target
                THEN [t1 EXCEPT !.status_manager = AddAll(@, card.status_effects)]
                ELSE t1
          p5 == IF has_target THEN p4
                ELSE [p4 EXCEPT !.status_manager = AddAll(@, card.status_effects)]
          e5 == StatusEffects(card.status_effects,
                              IF has_target THEN target.name ELSE p.name)
      IN {[success |-> TRUE, message |-> "", player |-> p5,
           deck |-> discard_card(o.deck, card), target |-> t2,
           effects |-> e1 \o e2 \o e3
                       \o (IF card.card_draw > 0
                           THEN <<Effect("draw", p.name, Len(o.drawn), 0, "")>>
                           ELSE <<>>)
                       \o e5] : o \in draws}

(***************************************************************************)
(* character.py: Enemy                                                     *)
(***************************************************************************)
\* Enemy.__init__: a Character with the intent fields.
Enemy(name, max_hp, intent, damage, block) ==
    Character(name, max_hp) @@
    [intent |-> intent, intent_damage |-> damage, intent_block |-> block,
     intent_description |-> ""]

\* Enemy.set_intent
set_intent(e, intent, damage, block, description) ==
    [e EXCEPT !.intent = intent, !.intent_damage = damage,
              !.intent_block = block, !.intent_description = description]

\* Enemy.execute_intent(target): [enemy, target, effects]
execute_intent(e, target) ==
    IF e.intent = "attack"
    THEN LET td == take_damage(target, apply_damage_modifier(e, e.intent_damage), FALSE)
         IN [enemy |-> e, target |-> td.c,
             effects |-> <<Effect("damage", target.name, td.ret, 0, "")>>]
    ELSE IF e.intent = "defend"
    THEN LET e1 == gain_block(e, e.intent_block)
         IN [enemy |-> e1, target |-> target,
             effects |-> <<Effect("block", e.name, e.intent_block, e1.block, "")>>]
    ELSE IF e.intent = "buff"
    THEN [enemy |-> [e EXCEPT !.status_manager =
                        add_status(@, STRENGTH, e.intent_damage, -1)],
          target |-> target,
          effects |-> <<Effect("status", e.name, e.intent_damage, 0, STRENGTH)>>]
    ELSE IF e.intent = "debuff"
    THEN [enemy |-> e,
          target |-> [target EXCEPT !.status_manager =
                        add_status(@, VULNERABLE, e.intent_damage, -1)],
          effects |-> <<Effect("status", target.name, e.intent_damage, 0, VULNERABLE)>>]
    ELSE [enemy |-> e, target |-> target, effects |-> <<>>]

\* Enemy.start_turn / Enemy.end_turn call the Character methods and add nothing.
Enemy_start_turn(e) == Character_start_turn(e)
Enemy_end_turn(e) == Character_end_turn(e)

(***************************************************************************)
(* combat.py: Combat                                                       *)
(*                                                                         *)
(* A combat is the record [state, turn_number, player, enemies, deck, log, *)
(* acted].  log holds the entries the running command has appended to      *)
(* combat_log (the list itself only grows); acted is a history of the      *)
(* enemy loop: for every enemy that acted, its index, its own HP and the    *)
(* player's block when it executed its intent, and the player's HP when it *)
(* had finished.                                                           *)
(***************************************************************************)
WAITING_FOR_INPUT == "waiting_for_input"
PLAYER_TURN == "player_turn"
ENEMY_TURN == "enemy_turn"
VICTORY == "victory"
DEFEAT == "defeat"
ENDED == "ended"

\* Combat._log: one entry, the message reduced to its kind, subject and number.
Log(w, kind, who, amount) ==
    [w EXCEPT !.log = Append(@, [kind |-> kind, who |-> who, amount |-> amount])]

\* The log lines for the effects of a result, in order.
RECURSIVE LogEffects(_, _)
LogEffects(w, effects) ==
    IF effects = <<>> THEN w
    ELSE LogEffects(Log(w, Head(effects).type, Head(effects).target,
                        Head(effects).amount), Tail(effects))

\* A constructor that leaves the combat in the player's turn.
Combat_PlayerTurn(p, d, es) ==
    {Log([state |-> PLAYER_TURN, turn_number |-> 0, player |-> o.player,
          enemies |-> es, deck |-> o.deck, log |-> <<>>, acted |-> <<>>],
         "combat_started", "", Len(es)) : o \in start_combat(p, d)}

\* Combat.__init__
Combat(p, d, es) ==
    {Log([state |-> WAITING_FOR_INPUT, turn_number |-> 0, player |-> o.player,
          enemies |-> es, deck |-> o.deck, log |-> <<>>, acted |-> <<>>],
         "combat_started", "", Len(es)) : o \in start_combat(p, d)}

\* The enemy status lines at the end of start_player_turn, from enemy i on.
RECURSIVE LogEnemies(_, _)
LogEnemies(w, i) ==
    IF i > Len(w.enemies) THEN w
    ELSE LET e == w.enemies[i]
             w1 == IF is_alive(e) THEN Log(w, "enemy_status", e.name, e.current_hp)
                   ELSE w
             w2 == IF is_alive(e) /\ e.intent_description # ""
                   THEN Log(w1, "enemy_intent", e.name, 0) ELSE w1
         IN LogEnemies(w2, i + 1)

\* A start_player_turn that counts the turn twice.
start_player_turn_Twice(w) ==
    LET w1 == Log(Log([w EXCEPT !.turn_number = @ + 2, !.state = PLAYER_TURN],
                      "turn", "", w.turn_number + 2),
                  "player_turn_begins", "", 0)
    IN {LogEnemies(
            Log(Log([w1 EXCEPT !.player = o.player, !.deck = o.deck],
                    "player_status", o.player.name, o.player.current_hp),
                "hand_size", o.player.name, Len(o.deck.hand)), 1) :
            o \in Player_start_turn(w1.player, w1.deck)}

\* Combat.start_player_turn
start_player_turn(w) ==
    LET w1 == Log(Log([w EXCEPT !.turn_number = @ + 1, !.state = PLAYER_TURN],
                      "turn", "", w.turn_number + 1),
                  "player_turn_begins", "", 0)
    IN {LogEnemies(
            Log(Log([w1 EXCEPT !.player = o.player, !.deck = o.deck],
                    "player_status", o.player.name, o.player.current_hp),
                "hand_size", o.player.name, Len(o.deck.hand)), 1) :
            o \in Player_start_turn(w1.player, w1.deck)}

\* list[i] of Python for an int i: negative indexes count from the end.
PyIndexInRange(list, i) == -Len(list) <= i /\ i < Len(list)
PyIndex(list, i) == IF i >= 0 THEN i + 1 ELSE Len(list) + i + 1

\* "Validation: Target must exist" of Combat.play_card.
InvalidTarget(es, target_index) == es = <<>> \/ target_index >= Len(es)

\* A result of Combat.play_card with the combat it leaves.
PlayResult(w, success, message, raised) ==
    [w |-> w, success |-> success, message |-> message, raised |-> raised]

\* Combat.play_card(card, target_index)
play_card(w, card, target_index) ==
    IF w.state # PLAYER_TURN
    THEN {PlayResult(w, FALSE, "Not player turn", FALSE)}
    ELSE IF InvalidTarget(w.enemies, target_index)
    THEN {PlayResult(w, FALSE, "Invalid target", FALSE)}
    ELSE IF ~PyIndexInRange(w.enemies, target_index)
    THEN {PlayResult(w, FALSE, "IndexError", TRUE)}
    ELSE LET k == PyIndex(w.enemies, target_index)
             target == w.enemies[k]
         IN IF ~is_alive(target)
            THEN {PlayResult(w, FALSE, "Target is dead", FALSE)}
            ELSE {LET w1 == [w EXCEPT !.player = r.player, !.deck = r.deck,
                                      !.enemies[k] = r.target]
                      w2 == LogEffects(Log(w1, "plays", card.name, 0), r.effects)
                      w3 == IF ~is_alive(r.target)
                            THEN Log(w2, "defeated", r.target.name, 0) ELSE w2
                  IN IF r.success
                     THEN PlayResult(w3, TRUE, "", FALSE)
                     ELSE PlayResult(w1, FALSE, r.message, FALSE) :
                  r \in Player_play_card(w.player, w.deck, card, TRUE, target)}

\* An AI that has every enemy defend in every turn.
determine_enemy_intent_Passive(turn, e) ==
    set_intent(e, "defend", 0, 8 + (turn \div 3), "Preparing to defend")

\* An AI that looks at the Buff rule before the Defend rule.
determine_enemy_intent_BuffFirst(turn, e) ==
    IF turn % 4 = 0
    THEN set_intent(e, "buff", 2, 0, "Gathering strength")
    ELSE IF turn % 3 = 0 /\ HpBelowHalf(e)
    THEN set_intent(e, "defend", 0, 8 + (turn \div 3), "Preparing to defend")
    ELSE set_intent(e, "attack", 6 + (turn \div 2), 0, "Attacking")

\* An AI that leaves the enemy with the intent it came with.
determine_enemy_intent_Kept(turn, e) == e

\* Combat._determine_enemy_intent
determine_enemy_intent(turn, e) ==
    IF turn % 3 = 0 /\ HpBelowHalf(e)
    THEN set_intent(e, "defend", 0, 8 + (turn \div 3), "Preparing to defend")
    ELSE IF turn % 4 = 0
    THEN set_intent(e, "buff", 2, 0, "Gathering strength")
    ELSE set_intent(e, "attack", 6 + (turn \div 2), 0, "Attacking")

\* An enemy loop that checks for defeat only once it is over.
PlayerDefeated_Unchecked(w) == FALSE

\* "Check defeat condition" of the enemy loop.
PlayerDefeated(w) == ~is_alive(w.player)

\* An enemy loop that returns without starting the next player turn.
AfterEnemyTurns_Return(w) == {w}

\* What the enemy loop does once every enemy has had its turn.
AfterEnemyTurns(w) == start_player_turn(w)

\* The loop of Combat._start_enemy_turns from enemy i on; x is the combat as
\* enemy i leaves it.
RECURSIVE EnemyLoop(_, _)
EnemyLoop(w, i) ==
    IF i > Len(w.enemies) THEN AfterEnemyTurns(w)
    ELSE IF ~is_alive(w.enemies[i]) THEN EnemyLoop(w, i + 1)
    ELSE LET e1 == determine_enemy_intent(w.turn_number, Enemy_start_turn(w.enemies[i]))
             w1 == IF e1.intent_description # ""
                   THEN Log(w, "enemy_turn", e1.name, 0) ELSE w
             r == execute_intent(e1, w1.player)
             w2 == LogEffects(w1, r.effects)
             w3 == [w2 EXCEPT !.player = r.target,
                              !.enemies[i] = Enemy_end_turn(r.enemy),
                              !.acted = Append(@, [enemy |-> i,
                                                   enemy_hp |-> e1.current_hp,
                                                   player_hp |-> r.target.current_hp,
                                                   player_block |-> w1.player.block])]
         IN UNION {IF PlayerDefeated(x)
                   THEN {Log([x EXCEPT !.state = DEFEAT], "defeat", "", 0)}
                   ELSE EnemyLoop(x, i + 1) : x \in {w3}}

\* Combat._start_enemy_turns
start_enemy_turns(w) == EnemyLoop([w EXCEPT !.state = ENEMY_TURN], 1)

\* A victory check that looks at the first enemy only.
AllEnemiesDead_First(es) == es = <<>> \/ ~is_alive(es[1])

\* any() where the victory check has all().
AllEnemiesDead_Any(es) == \E i \in 1..Len(es) : ~is_alive(es[i])

\* "Check victory condition" of Combat.end_player_turn.
AllEnemiesDead(es) == \A i \in 1..Len(es) : ~is_alive(es[i])

\* Combat.end_player_turn; x is the combat as the player's end_turn leaves it.
end_player_turn(w) ==
    IF w.state # PLAYER_TURN THEN {w}
    ELSE LET o == Player_end_turn(w.player, w.deck)
             w1 == Log([w EXCEPT !.player = o.player, !.deck = o.deck],
                       "player_turn_ends", "", 0)
         IN IF AllEnemiesDead(w1.enemies)
            THEN {Log([w1 EXCEPT !.state = VICTORY], "victory", "", 0)}
            ELSE UNION {start_enemy_turns(x) : x \in {w1}}

is_combat_active(w) == w.state \in {PLAYER_TURN, ENEMY_TURN, WAITING_FOR_INPUT}

(***************************************************************************)
(* The hosts.                                                              *)
(*                                                                         *)
(* last is the latest call and what it returned: op, the card and the int  *)
(* argument n, the bool argument flag, success / message / raised of a     *)
(* result dict, the int returned (ret) and the list returned (drawn).  A   *)
(* rejected call names only what it returned.  For draw, flag says that    *)
(* more cards were drawn than the draw pile held, so the discard pile was  *)
(* reshuffled.  For an accepted end_player_turn, n is the block the player *)
(* held when the call was made.                                            *)
(***************************************************************************)
NoCard == Card("", SKILL, 0, 0, 0, 0, {}, 0, 0)

Call(op, card, n, flag, success, message, raised, ret, drawn) ==
    [op |-> op, card |-> card, n |-> n, flag |-> flag, success |-> success,
     message |-> message, raised |-> raised, ret |-> ret, drawn |-> drawn]

Done(op) == Call(op, NoCard, 0, FALSE, TRUE, "", FALSE, 0, <<>>)

\* The decks a player enters a combat with.
CombatDecks ==
    {<<>>, <<Strike, Bash, Defend>>, <<Strike, ShrugItOff>>,
     <<upgrade(Surge), Metallicize>>, <<Barricade, DemonForm>>,
     [i \in 1..11 |-> Strike]}

\* max_hp of the players entering a combat.
PlayerMaxHps == {13}

\* The encounters.
Encounters ==
    {<<>>,
     <<Enemy("Goblin 1", 6, "attack", 5, 0)>>,
     <<Enemy("Orc 1", 20, "attack", 8, 0), Enemy("Goblin 2", 6, "debuff", 1, 0)>>}

\* Every card of the deck, whatever zone it is in.
DeckCards(d) ==
    Range(d.draw_pile) \cup Range(d.hand) \cup Range(d.discard_pile)
        \cup Range(d.exhaust_pile)

\* The combat the variables hold.
World ==
    [state |-> state, turn_number |-> turn_number, player |-> player,
     enemies |-> enemies, deck |-> deck, log |-> log, acted |-> acted]

\* The command starts with nothing appended to the log and no enemy having acted.
Fresh == [World EXCEPT !.log = <<>>, !.acted = <<>>]

\* The variables take the combat w that a command run from Fresh has left.  A
\* command that appended nothing leaves combat_log as it was.
Becomes(w) ==
    /\ state' = w.state
    /\ turn_number' = w.turn_number
    /\ player' = w.player
    /\ enemies' = w.enemies
    /\ deck' = w.deck
    /\ log' = IF w.log = <<>> THEN log ELSE w.log
    /\ acted' = IF w.log = <<>> THEN acted ELSE w.acted

\* The layers whose host plays cards and ends turns, and the turn number at
\* which each stops ending them.
CombatLayers == {"combat", "rounds"}
TurnLimit == IF layer = "rounds" THEN MaxRound + 1 ELSE MaxTurn

\* The combats a host sets up: a fresh player with any of the decks against
\* any of the encounters; a player the host has given Poison or Burn
\* (player.status_manager.add_status(name, 13)) with one Strike against a
\* Goblin; and a fresh player with one Venom against a Goblin.
CombatSetups ==
    {[player |-> Player("Player", hp, default_max_energy), cards |-> cards,
      enemies |-> es] : hp \in PlayerMaxHps, cards \in CombatDecks, es \in Encounters}
      \cup {[player |-> [Player("Player", 13, default_max_energy) EXCEPT
                           !.status_manager = add_status(@, name, 13, -1)],
             cards |-> <<Strike>>,
             enemies |-> <<Enemy("Goblin 1", 6, "attack", 5, 0)>>] :
              name \in {POISON, BURN}}
      \cup {[player |-> Player("Player", 13, default_max_energy),
             cards |-> <<Venom>>,
             enemies |-> <<Enemy("Goblin 1", 6, "attack", 5, 0)>>]}

\* Game.__init__ and Combat(player, enemies)
InitCombat ==
    /\ layer = "combat"
    /\ \E s \in CombatSetups :
         \E d \in Deck(s.cards) :
           \E w \in Combat(s.player, d, s.enemies) :
             /\ state = w.state
             /\ turn_number = w.turn_number
             /\ player = w.player
             /\ enemies = w.enemies
             /\ deck = w.deck
             /\ log = w.log
             /\ acted = w.acted
    /\ last = Done("Combat")

\* Combat.start_player_turn()
StartPlayerTurn ==
    /\ layer = "combat"
    /\ turn_number < MaxTurn
    /\ \E w \in start_player_turn(Fresh) : Becomes(w)
    /\ last' = Done("start_player_turn")
    /\ UNCHANGED layer

\* Combat.play_card(card, target_index)
PlayCard ==
    /\ layer \in CombatLayers
    /\ \E card \in DeckCards(deck) \cup {Strike},
          target_index \in (-(Len(enemies) + 1))..Len(enemies) :
         \E r \in play_card(Fresh, card, target_index) :
           IF r.success
           THEN /\ Becomes(r.w)
                /\ last' = Call("play_card", card, target_index, FALSE, TRUE, "",
                                FALSE, 0, <<>>)
           ELSE /\ Becomes(r.w)
                /\ last' = Call("play_card", NoCard, 0, FALSE, FALSE, r.message,
                                r.raised, 0, <<>>)
    /\ UNCHANGED layer

\* Combat.end_player_turn()
EndPlayerTurn ==
    /\ layer \in CombatLayers
    /\ turn_number < TurnLimit
    /\ \E w \in end_player_turn(Fresh) : Becomes(w)
    /\ last' = IF state # PLAYER_TURN
               THEN Call("end_player_turn", NoCard, 0, FALSE, FALSE, "", FALSE, 0, <<>>)
               ELSE Call("end_player_turn", NoCard, player.block, FALSE, TRUE, "",
                         FALSE, 0, <<>>)
    /\ UNCHANGED layer

NextCombat == StartPlayerTurn \/ PlayCard \/ EndPlayerTurn

\* A long combat, driven as Game drives it: Game.start_new_combat builds the
\* combat and starts the first turn, and from then on the host plays cards and
\* ends turns (Game.play_card, Game.end_turn), over MaxRound rounds.  The
\* player is that of Game.__init__ with a one-card deck, against two enemies.
InitRounds ==
    /\ layer = "rounds"
    /\ \E d \in Deck(<<Strike>>) :
         \E c \in Combat(Player("Player", 80, default_max_energy), d,
                         <<Enemy("Orc 1", 20, "attack", 8, 0),
                           Enemy("Goblin 2", 6, "attack", 5, 0)>>) :
          \E w \in start_player_turn(c) :
           /\ state = w.state
           /\ turn_number = w.turn_number
           /\ player = w.player
           /\ enemies = w.enemies
           /\ deck = w.deck
           /\ log = w.log
           /\ acted = w.acted
    /\ last = Done("start_player_turn")

NextRounds == PlayCard \/ EndPlayerTurn

\* Combat.play_card(Strike, t) for every t of targets in turn, each on the
\* combat the one before has left: the combats in which all of them succeeded.
RECURSIVE PlayStrikes(_, _)
PlayStrikes(w, targets) ==
    IF targets = <<>> THEN {w}
    ELSE UNION {PlayStrikes(r.w, Tail(targets)) :
                  r \in {x \in play_card([w EXCEPT !.log = <<>>, !.acted = <<>>],
                                         Strike, Head(targets)) : x.success}}

\* The target indexes of at most one play.
StrikeTargets == UNION {[1..k -> {0, 1}] : k \in 0..1}

\* A combat whose host, from some point of the first turn on, only ends the
\* turn: a player with up to MaxSiegeHp HP and one Strike against a Goblin of 6
\* or of 11 HP, or an Orc and a Goblin, after start_player_turn and at most
\* one Strike.
InitSiege ==
    /\ layer = "rounds"
    /\ \E hp \in {MaxSiegeHp - 6 * k : k \in 0..6}, targets \in StrikeTargets,
          es \in {<<Enemy("Goblin 1", 6, "attack", 5, 0)>>,
                  <<Enemy("Goblin 1", 11, "attack", 5, 0)>>,
                  <<Enemy("Orc 1", 20, "attack", 8, 0),
                    Enemy("Goblin 2", 6, "attack", 5, 0)>>} :
         \E d \in Deck(<<Strike>>) :
          \E c \in Combat(Player("Player", hp, default_max_energy), d, es) :
           \E w0 \in start_player_turn(c) :
            \E w \in PlayStrikes(w0, targets) :
              /\ state = w.state
              /\ turn_number = w.turn_number
              /\ player = w.player
              /\ enemies = w.enemies
              /\ deck = w.deck
              /\ log = w.log
              /\ acted = w.acted
              /\ last = IF targets = <<>> THEN Done("start_player_turn")
                        ELSE Call("play_card", Strike, targets[Len(targets)], FALSE,
                                  TRUE, "", FALSE, 0, <<>>)

(***************************************************************************)
(* A free-standing Deck and its host.                                      *)
(***************************************************************************)
\* The cards a free-standing deck is built from and is handed.
DeckCardSet == {Strike, Defend}

\* The lists of at most n cards.
CardLists(n) == UNION {[1..k -> DeckCardSet] : k \in 0..n}

\* The variables no method of the layer at hand touches.
Idle ==
    /\ state = WAITING_FOR_INPUT
    /\ turn_number = 0
    /\ enemies = <<>>
    /\ log = <<>>
    /\ acted = <<>>

\* Deck(cards)
InitDeck ==
    /\ layer = "deck"
    /\ Idle
    /\ player = Player("Player", 80, default_max_energy)
    /\ \E cards \in CardLists(MaxDeckCards) : deck \in Deck(cards)
    /\ last = Done("Deck")

DeckFrame == UNCHANGED <<layer, state, turn_number, player, enemies, log, acted>>

\* Deck.draw(count)
Draw ==
    /\ layer = "deck"
    /\ \E count \in 0..MaxCount : \E o \in draw(deck, count) :
         /\ deck' = o.deck
         /\ last' = Call("draw", NoCard, count, Len(o.drawn) > Len(deck.draw_pile),
                         TRUE, "", FALSE, 0, o.drawn)
    /\ DeckFrame

\* Deck.discard_hand()
DiscardHand ==
    /\ layer = "deck"
    /\ deck' = discard_hand(deck)
    /\ last' = Done("discard_hand")
    /\ DeckFrame

\* Deck.discard_card(card)
DiscardCard ==
    /\ layer = "deck"
    /\ \E card \in DeckCardSet :
         /\ deck' = discard_card(deck, card)
         /\ last' = Call("discard_card", card, 0, FALSE, TRUE, "", FALSE, 0, <<>>)
    /\ DeckFrame

\* Deck.exhaust_card(card)
ExhaustCard ==
    /\ layer = "deck"
    /\ \E card \in DeckCardSet :
         /\ deck' = exhaust_card(deck, card)
         /\ last' = Call("exhaust_card", card, 0, FALSE, TRUE, "", FALSE, 0, <<>>)
    /\ DeckFrame

\* Deck.add_card(card, to_draw_pile)
AddCard ==
    /\ layer = "deck"
    /\ get_total_cards(deck) + Len(deck.exhaust_pile) < MaxDeckCards
    /\ \E card \in DeckCardSet, to_draw_pile \in BOOLEAN :
         /\ deck' = add_card(deck, card, to_draw_pile)
         /\ last' = Call("add_card", card, 0, to_draw_pile, TRUE, "", FALSE, 0, <<>>)
    /\ DeckFrame

\* Deck.remove_card(card)
RemoveCard ==
    /\ layer = "deck"
    /\ \E card \in DeckCardSet :
         /\ deck' = remove_card(deck, card)
         /\ last' = Call("remove_card", card, 0, FALSE, TRUE, "", FALSE, 0, <<>>)
    /\ DeckFrame

\* Deck.reset_for_combat()
ResetForCombat ==
    /\ layer = "deck"
    /\ deck' \in reset_for_combat(deck)
    /\ last' = Done("reset_for_combat")
    /\ DeckFrame

NextDeck ==
    \/ Draw \/ DiscardHand \/ DiscardCard \/ ExhaustCard \/ AddCard \/ RemoveCard
    \/ ResetForCombat

(***************************************************************************)
(* A free-standing Character and its host.                                 *)
(***************************************************************************)
\* max_hp of the free-standing character.
HeroMaxHp == 4

\* The status effects a character comes with: none, one entry, a multiplier
\* (Frail, Weak) together with the addend that goes with it (Dexterity,
\* Strength), Metallicize together with a Barricade, or 1 or 3 stacks of Demon
\* Form.
HeroStatuses ==
    {StatusManager}
      \cup {add_status(StatusManager, n, a, -1) : n \in StatusNames, a \in {-1, 2}}
      \cup {add_status(StatusManager, n, 1, 1) : n \in {VULNERABLE, BARRICADE}}
      \cup {add_status(add_status(StatusManager, FRAIL, 1, -1), DEXTERITY, a, -1) :
              a \in {-1, 2}}
      \cup {add_status(add_status(StatusManager, WEAK, 1, -1), STRENGTH, a, -1) :
              a \in {-3, 2}}
      \cup {add_status(add_status(StatusManager, METALLICIZE, 2, -1), BARRICADE, a, d) :
              a \in {-1, 1}, d \in {-1, 2}}
      \cup {add_status(StatusManager, DEMON_FORM, a, -1) : a \in {1, 3}}

\* Character(name, max_hp), then status_manager.add_status(...)
InitCharacter ==
    /\ layer = "character"
    /\ Idle
    /\ deck \in Deck(<<>>)
    /\ \E sm \in HeroStatuses :
         player = [Character("Hero", HeroMaxHp) EXCEPT !.status_manager = sm]
    /\ last = Done("Character")

CharacterFrame == UNCHANGED <<layer, state, turn_number, enemies, deck, log, acted>>

\* Character.take_damage(amount, ignore_block)
TakeDamage ==
    /\ layer = "character"
    /\ \E amount \in 0..MaxAmount, ignore_block \in BOOLEAN :
         LET r == take_damage(player, amount, ignore_block)
         IN /\ player' = r.c
            /\ last' = Call("take_damage", NoCard, amount, ignore_block, TRUE, "",
                            FALSE, r.ret, <<>>)
    /\ CharacterFrame

\* Character.gain_block(amount)
GainBlock ==
    /\ layer = "character"
    /\ -MaxBlock < player.block /\ player.block < MaxBlock
    /\ \E amount \in 0..MaxAmount :
         /\ player' = gain_block(player, amount)
         /\ last' = Call("gain_block", NoCard, amount, FALSE, TRUE, "", FALSE, 0, <<>>)
    /\ CharacterFrame

\* Character.heal(amount)
Heal ==
    /\ layer = "character"
    /\ \E amount \in 0..MaxAmount :
         /\ player' = heal(player, amount)
         /\ last' = Call("heal", NoCard, amount, FALSE, TRUE, "", FALSE, 0, <<>>)
    /\ CharacterFrame

\* Character.start_turn()
StartTurn ==
    /\ layer = "character"
    /\ player' = Character_start_turn(player)
    /\ last' = Done("start_turn")
    /\ CharacterFrame

\* Character.end_turn()
EndTurn ==
    /\ layer = "character"
    /\ get_status_amount(player.status_manager, STRENGTH) < 2 * MaxTurn
    /\ player.block < MaxBlock
    /\ player' = Character_end_turn(player)
    /\ last' = Done("end_turn")
    /\ CharacterFrame

\* Character.apply_damage_modifier(base_damage)
ApplyDamageModifier ==
    /\ layer = "character"
    /\ \E base_damage \in 0..MaxAmount :
         last' = Call("apply_damage_modifier", NoCard, base_damage, FALSE, TRUE, "",
                      FALSE, apply_damage_modifier(player, base_damage), <<>>)
    /\ UNCHANGED player
    /\ CharacterFrame

NextCharacter ==
    \/ TakeDamage \/ GainBlock \/ Heal \/ StartTurn \/ EndTurn \/ ApplyDamageModifier

(***************************************************************************)
(* A free-standing StatusManager (that of a fresh Character) and its host. *)
(* last names the call's arguments: name, the amount n and duration.       *)
(***************************************************************************)
\* The names, amounts and durations the host passes to add_status.
HostStatusNames == {VULNERABLE, POISON}
HostAmounts == {-1, 2, 3}
HostDurations == (-1)..MaxDuration

\* A call on the status manager and its arguments.
StatusCall(op, name, amount, duration) ==
    [op |-> op, card |-> NoCard, n |-> amount, flag |-> FALSE, success |-> TRUE,
     message |-> "", raised |-> FALSE, ret |-> 0, drawn |-> <<>>,
     name |-> name, duration |-> duration]

\* Character(name, max_hp): status_manager = StatusManager()
InitStatus ==
    /\ layer = "status"
    /\ Idle
    /\ deck \in Deck(<<>>)
    /\ player = Character("Hero", HeroMaxHp)
    /\ last = Done("StatusManager")

\* StatusManager.add_status(name, amount, duration)
AddStatus ==
    /\ layer = "status"
    /\ \E name \in HostStatusNames, amount \in HostAmounts, duration \in HostDurations :
         /\ get_status_amount(player.status_manager, name) + amount \in (-1)..MaxStack
         /\ player' = [player EXCEPT
                          !.status_manager = add_status(@, name, amount, duration)]
         /\ last' = StatusCall("add_status", name, amount, duration)
    /\ CharacterFrame

\* StatusManager.remove_status(name)
RemoveStatus ==
    /\ layer = "status"
    /\ \E name \in HostStatusNames :
         /\ player' = [player EXCEPT !.status_manager = remove_status(@, name)]
         /\ last' = StatusCall("remove_status", name, 0, 0)
    /\ CharacterFrame

\* StatusManager.tick_all()
TickAll ==
    /\ layer = "status"
    /\ player' = [player EXCEPT !.status_manager = tick_all(@)]
    /\ last' = Done("tick_all")
    /\ CharacterFrame

NextStatus == AddStatus \/ RemoveStatus \/ TickAll

(***************************************************************************)
(* A Card in a deck and the host that reads and upgrades it.               *)
(***************************************************************************)
\* The cards a host builds: Card(name, card_type, cost=, damage=, block=,
\* upgrade_damage=, upgrade_block=, upgrade_cost_reduction=), not upgraded.
HostCards ==
    {[Card("Card", card_type, cost, damage, block, 0, {}, up_damage, up_block) EXCEPT
        !.upgrade_cost_reduction = reduction] :
        card_type \in {ATTACK, POWER}, cost \in 0..MaxCardValue, damage \in 0..MaxCardValue,
        block \in 0..MaxCardValue, up_damage \in 0..MaxCardValue,
        up_block \in 0..MaxCardValue, reduction \in 0..MaxCardValue}

\* Deck([card])
InitCard ==
    /\ layer = "card"
    /\ Idle
    /\ player = Player("Player", 80, default_max_energy)
    /\ \E card \in HostCards : deck \in Deck(<<card>>)
    /\ last = Done("Card")

\* card.upgrade(), on the card object the deck holds
Upgrade ==
    /\ layer = "card"
    /\ deck' = [deck EXCEPT !.draw_pile[1] = upgrade(@)]
    /\ last' = Done("upgrade")
    /\ DeckFrame

\* card.get_cost()
GetCost ==
    /\ layer = "card"
    /\ last' = Call("get_cost", NoCard, 0, FALSE, TRUE, "", FALSE,
                    get_cost(deck.draw_pile[1]), <<>>)
    /\ UNCHANGED deck
    /\ DeckFrame

\* card.get_damage()
GetDamage ==
    /\ layer = "card"
    /\ last' = Call("get_damage", NoCard, 0, FALSE, TRUE, "", FALSE,
                    get_damage(deck.draw_pile[1]), <<>>)
    /\ UNCHANGED deck
    /\ DeckFrame

\* card.get_block()
GetBlock ==
    /\ layer = "card"
    /\ last' = Call("get_block", NoCard, 0, FALSE, TRUE, "", FALSE,
                    get_block(deck.draw_pile[1]), <<>>)
    /\ UNCHANGED deck
    /\ DeckFrame

\* data = card.to_dict(): last.data is the dict returned
ToDict ==
    /\ layer = "card"
    /\ last' = Done("to_dict") @@ [data |-> to_dict(deck.draw_pile[1])]
    /\ UNCHANGED deck
    /\ DeckFrame

\* Card.from_dict(data) on the dict the latest call returned; the card built
\* takes the place of the one the deck held.
FromDict ==
    /\ layer = "card"
    /\ last.op = "to_dict"
    /\ deck' = [deck EXCEPT !.draw_pile[1] = from_dict(last.data)]
    /\ last' = Done("from_dict") @@ [data |-> last.data]
    /\ DeckFrame

NextCard == Upgrade \/ GetCost \/ GetDamage \/ GetBlock \/ ToDict \/ FromDict

(***************************************************************************)
(* The specifications: each host alone, and any of them.                   *)
(***************************************************************************)
Init ==
    InitCombat \/ InitRounds \/ InitDeck \/ InitCharacter \/ InitStatus \/ InitCard

Next == NextCombat \/ NextDeck \/ NextCharacter \/ NextStatus \/ NextCard

Spec == Init /\ [][Next]_vars

SpecCombat == InitCombat /\ [][NextCombat]_vars

SpecRounds == InitRounds /\ [][NextRounds]_vars

\* The host that only ends the turn, which it does again and again.
SpecSiege == InitSiege /\ [][EndPlayerTurn]_vars /\ WF_vars(EndPlayerTurn)

\* The short combats and the long one.
SpecBattles == (InitCombat \/ InitRounds) /\ [][NextCombat]_vars

SpecDeck == InitDeck /\ [][NextDeck]_vars

SpecCharacter == InitCharacter /\ [][NextCharacter]_vars

SpecStatus == InitStatus /\ [][NextStatus]_vars

SpecCard == InitCard /\ [][NextCard]_vars

(***************************************************************************)
(* The claims.                                                             *)
(***************************************************************************)
\* The variables of the engine: everything but the record of the latest call.
engine == <<state, turn_number, player, enemies, deck, log, acted>>

\* C1: in every reachable state every character, the player and each enemy,
\* has 0 <= current_hp <= max_hp.
C1_HpInRange ==
    /\ 0 <= player.current_hp /\ player.current_hp <= player.max_hp
    /\ \A i \in 1..Len(enemies) :
         0 <= enemies[i].current_hp /\ enemies[i].current_hp <= enemies[i].max_hp

\* A hit larger than the whole of max_hp has left the character at 0.
C1_Witness ==
    /\ last.op = "take_damage"
    /\ last.ret > player.max_hp
    /\ player.current_hp = 0

\* C2: a Combat.play_card that returns a failure leaves the combat state, the
\* turn number, the player, every enemy, the deck and the log as they were.
C2_FailedPlayChangesNothing ==
    [][(last'.op = "play_card" /\ ~last'.success) => UNCHANGED engine]_vars

\* A play was refused for lack of energy, the last of the validations.
C2_Witness ==
    /\ last.op = "play_card"
    /\ ~last.success
    /\ last.message = "Not enough energy"
    /\ state = PLAYER_TURN
    /\ deck.hand # <<>>

\* C3: a Combat.play_card succeeds only with a target_index in
\* 0..len(enemies)-1; every other index, the negative ones included, fails.
C3_SuccessOnlyInRange ==
    (last.op = "play_card" /\ last.success)
        => (0 <= last.n /\ last.n < Len(enemies))

\* C4: once the state is Victory or Defeat no Combat operation changes the
\* state, the turn number, a character or the deck.
C4_TerminalIsFrozen ==
    [][(state \in {VICTORY, DEFEAT})
        => UNCHANGED <<state, turn_number, player, enemies, deck>>]_vars

\* C5: an end_player_turn accepted with every enemy at 0 HP ends in Victory; no
\* enemy has a turn, no enemy changes, the player's HP is what the player's own
\* end_turn leaves, and the turn number stays.
C5_VictoryWithoutEnemyTurn ==
    [][(/\ last'.op = "end_player_turn"
        /\ state = PLAYER_TURN
        /\ \A i \in 1..Len(enemies) : enemies[i].current_hp = 0)
       => (/\ state' = VICTORY
           /\ enemies' = enemies
           /\ turn_number' = turn_number
           /\ acted' = <<>>
           /\ player'.current_hp = Character_end_turn(player).current_hp
           /\ \A k \in 1..Len(log') :
                log'[k].kind \in {"player_turn_ends", "victory"})]_vars

\* The turn ended in Victory over an enemy that had been killed.
C5_Witness ==
    /\ last.op = "end_player_turn"
    /\ state = VICTORY
    /\ enemies # <<>>
    /\ turn_number > 0

\* C6: in the enemy loop the enemies act in list order; once the player is at
\* 0 HP after an enemy has acted the state is Defeat, no later enemy of the list
\* has acted (it is as it was, and nothing of it is in the log) and no player
\* turn has been started.
C6_DefeatStopsTheLoop ==
    [][(last'.op = "end_player_turn" /\ state = PLAYER_TURN)
       => (/\ \A a, b \in 1..Len(acted') :
                a < b => acted'[a].enemy < acted'[b].enemy
           /\ \A a \in 1..Len(acted') :
                acted'[a].player_hp = 0 =>
                  /\ a = Len(acted')
                  /\ state' = DEFEAT
                  /\ turn_number' = turn_number
                  /\ \A k \in 1..Len(log') : log'[k].kind # "turn"
                  /\ \A j \in (acted'[a].enemy + 1)..Len(enemies) :
                       /\ enemies'[j] = enemies[j]
                       /\ \A k \in 1..Len(log') : log'[k].who # enemies[j].name)]_vars

\* The player fell to the first of two enemies and the second, alive, had no
\* turn.
C6_Witness ==
    /\ last.op = "end_player_turn"
    /\ state = DEFEAT
    /\ Len(enemies) = 2
    /\ Len(acted) = 1
    /\ acted[1].enemy = 1
    /\ acted[1].player_hp = 0
    /\ enemies[2].current_hp > 0

\* C7: the state is never EnemyTurn between two commands: an accepted
\* end_player_turn returns in PlayerTurn, Victory or Defeat, and when the
\* enemy loop has run to its end with the player alive the state is PlayerTurn
\* and the turn number is one more than before.
C7_EndTurnSettles ==
    [][(last'.op = "end_player_turn" /\ state = PLAYER_TURN)
       => (/\ state' \in {PLAYER_TURN, VICTORY, DEFEAT}
           /\ ((/\ \E i \in 1..Len(enemies) : enemies[i].current_hp > 0
                /\ \A a \in 1..Len(acted') : acted'[a].player_hp > 0)
               => (state' = PLAYER_TURN /\ turn_number' = turn_number + 1)))]_vars

\* Both enemies have acted, the player is alive and the second turn has begun.
C7_Witness ==
    /\ last.op = "end_player_turn"
    /\ state = PLAYER_TURN
    /\ Len(acted) = 2
    /\ player.current_hp > 0
    /\ turn_number = 2

\* C8: draw, discard_hand, discard_card and reset_for_combat keep the number of
\* cards in draw pile + discard pile + hand.
C8_DeckConservation ==
    [][(last'.op \in {"draw", "discard_hand", "discard_card", "reset_for_combat"})
        => Len(deck'.draw_pile) + Len(deck'.discard_pile) + Len(deck'.hand)
             = Len(deck.draw_pile) + Len(deck.discard_pile) + Len(deck.hand)]_vars

\* A draw has reshuffled the discard pile with cards left in the hand.
C8_Witness ==
    /\ last.op = "draw"
    /\ last.flag
    /\ Len(deck.hand) > Len(last.drawn)

\* C9: draw(count) returns min(count, |draw pile| + |discard pile|) cards, the
\* sizes taken before the call, and the hand grows by as many; with both piles
\* empty it returns the empty list and changes nothing.
C9_DrawCount ==
    [][(last'.op = "draw")
        => (/\ Len(last'.drawn)
                 = Min(last'.n, Len(deck.draw_pile) + Len(deck.discard_pile))
            /\ Len(deck'.hand) = Len(deck.hand) + Len(last'.drawn)
            /\ (deck.draw_pile = <<>> /\ deck.discard_pile = <<>>)
                 => (last'.drawn = <<>> /\ deck' = deck))]_vars

\* A draw across a reshuffle that returned fewer cards than were asked for.
C9_Witness ==
    /\ last.op = "draw"
    /\ last.flag
    /\ Len(last.drawn) < last.n

\* C10 as claimed: a take_damage that does not ignore block, on a character
\* with block > 0, returns at most the amount asked for, whatever the statuses.
C10_BlockedDamageAtMostAmount ==
    [][(last'.op = "take_damage" /\ ~last'.flag /\ player.block > 0)
        => last'.ret <= last'.n]_vars

\* C10 as amended: a take_damage that does not ignore block, on a character
\* with block > 0, returns at most the amount asked for when the Vulnerable
\* amount is not positive, and at most (amount * 3) div 2 when it is.
C10_BlockedDamageBound ==
    [][(last'.op = "take_damage" /\ ~last'.flag /\ player.block > 0)
        => IF get_status_amount(player.status_manager, VULNERABLE) > 0
           THEN last'.ret <= (last'.n * 3) \div 2
           ELSE last'.ret <= last'.n]_vars

\* Block has absorbed part of a hit on a character that is not vulnerable.
C10_Witness ==
    /\ last.op = "take_damage"
    /\ ~last.flag
    /\ 0 < last.ret /\ last.ret < last.n
    /\ get_status_amount(player.status_manager, VULNERABLE) <= 0

\* C11: take_damage follows the reference pipeline.  With ignore_block the
\* actual damage is the amount and block is unchanged; otherwise the amount is
\* first replaced by (amount * 3) div 2 when Vulnerable > 0, then a block that
\* covers the amount drops by it and the actual damage is 0, else the actual
\* damage is amount - block and block becomes 0.  current_hp becomes
\* max(0, current_hp - actual damage), the value returned is the actual damage,
\* and nothing else of the character changes.
C11_TakeDamagePipeline ==
    [][(last'.op = "take_damage")
        => LET vulnerable == get_status_amount(player.status_manager, VULNERABLE)
               amount == IF ~last'.flag /\ vulnerable > 0
                         THEN (last'.n * 3) \div 2 ELSE last'.n
               covered == player.block >= amount
               actual == IF last'.flag THEN last'.n
                         ELSE IF covered THEN 0 ELSE amount - player.block
               block == IF last'.flag THEN player.block
                        ELSE IF covered THEN player.block - amount ELSE 0
           IN /\ last'.ret = actual
              /\ player' = [player EXCEPT
                              !.block = block,
                              !.current_hp = IF @ - actual > 0 THEN @ - actual ELSE 0]]_vars

\* A vulnerable character took a hit that went through its block for more than
\* the amount asked for, and fell to 0 HP.
C11_Witness ==
    /\ last.op = "take_damage"
    /\ ~last.flag
    /\ get_status_amount(player.status_manager, VULNERABLE) > 0
    /\ last.ret > last.n
    /\ player.block = 0
    /\ player.current_hp = 0

\* C12: gain_block(amount) raises block by exactly
\* (if Frail > 0 then (amount * 3) div 4 else amount) + Dexterity, the Frail
\* factor being applied to the amount alone, and changes nothing else.
C12_GainBlockAmount ==
    [][(last'.op = "gain_block")
        => LET frail == get_status_amount(player.status_manager, FRAIL)
               dexterity == get_status_amount(player.status_manager, DEXTERITY)
               base == IF frail > 0 THEN (last'.n * 3) \div 4 ELSE last'.n
           IN player' = [player EXCEPT !.block = @ + base + dexterity]]_vars

\* A frail character with Dexterity 2 gained block for the amount 3: 2 from the
\* amount and 2 from Dexterity, where Frail on the sum would have left 3.
C12_Witness ==
    /\ last.op = "gain_block"
    /\ last.n = 3
    /\ get_status_amount(player.status_manager, FRAIL) > 0
    /\ get_status_amount(player.status_manager, DEXTERITY) = 2
    /\ player.block = 4

\* C13: apply_damage_modifier(base) returns max(0, d) where d = base + Strength,
\* replaced by d * 0.75 truncated toward zero when Weak > 0: Strength is added
\* before the Weak factor and the result is never negative, whatever the sign
\* of Strength.  The character is left as it was.
C13_DamageModifier ==
    [][(last'.op = "apply_damage_modifier")
        => LET strength == get_status_amount(player.status_manager, STRENGTH)
               weak == get_status_amount(player.status_manager, WEAK)
               d == last'.n + strength
               scaled == IF weak <= 0 THEN d
                         ELSE IF d >= 0 THEN (3 * d) \div 4 ELSE -((3 * (-d)) \div 4)
           IN /\ last'.ret = (IF scaled > 0 THEN scaled ELSE 0)
              /\ last'.ret >= 0
              /\ player' = player]_vars

\* A weak character with Strength 2 asked for base damage 3: (3 + 2) * 0.75
\* gives 3, where Strength added after the factor would have given 4.
C13_Witness ==
    /\ last.op = "apply_damage_modifier"
    /\ last.n = 3
    /\ get_status_amount(player.status_manager, WEAK) > 0
    /\ get_status_amount(player.status_manager, STRENGTH) = 2
    /\ last.ret = 3

\* The number of copies of card x in the list s.
Count(s, x) == Cardinality({i \in 1..Len(s) : s[i] = x})

\* C14: a successful play lowers the player's energy by the card's effective
\* cost and then adds its energy_gain; when the effective damage is > 0 the
\* target is left as take_damage(apply_damage_modifier(effective damage))
\* leaves it, and no other enemy changes; the card ends on top of the discard
\* pile and one copy of it has left the hand.
C14_SuccessfulPlay ==
    [][(last'.op = "play_card" /\ last'.success)
        => LET card == last'.card
               k == PyIndex(enemies, last'.n)
               damage == get_damage(card)
               hit == take_damage(enemies[k], apply_damage_modifier(player, damage), FALSE).c
               drawn == Min(card.card_draw,
                            Len(deck.draw_pile) + Len(deck.discard_pile))
           IN /\ player'.energy = player.energy - get_cost(card) + card.energy_gain
              /\ enemies'[k].current_hp =
                    (IF damage > 0 THEN hit.current_hp ELSE enemies[k].current_hp)
              /\ enemies'[k].block = (IF damage > 0 THEN hit.block ELSE enemies[k].block)
              /\ \A j \in 1..Len(enemies) : j # k => enemies'[j] = enemies[j]
              /\ deck'.discard_pile # <<>>
              /\ deck'.discard_pile[Len(deck'.discard_pile)] = card
              /\ Len(deck'.hand) = Len(deck.hand) - 1 + drawn
              /\ \A c \in DeckCards(deck) :
                    Count(deck'.hand, c) + Count(deck'.draw_pile, c)
                        + Count(deck'.discard_pile, c)
                      = Count(deck.hand, c) + Count(deck.draw_pile, c)
                        + Count(deck.discard_pile, c)
              /\ card.card_draw = 0 =>
                    /\ deck'.hand = ListRemove(deck.hand, card)
                    /\ deck'.discard_pile = Append(deck.discard_pile, card)
                    /\ deck'.draw_pile = deck.draw_pile]_vars

\* The 1-cost 6-damage Strike played on the unblocked 20-HP enemy: the enemy is
\* at 14 HP and the player at 2 energy.
C14_Witness ==
    /\ last.op = "play_card"
    /\ last.success
    /\ last.card = Strike
    /\ last.n = 0
    /\ enemies # <<>>
    /\ enemies[1].max_hp = 20
    /\ enemies[1].current_hp = 14
    /\ player.energy = 2
    /\ deck.discard_pile = <<Strike>>

\* C15: add_status on a name that is present adds the amount to the stored one
\* and never lengthens the duration: the stored duration becomes the incoming
\* one only when the incoming one is > 0 and the stored one is indefinite (-1)
\* or larger, and stays otherwise.  On an absent name it creates the entry with
\* the given amount and duration.  No other entry changes.
C15_AddStatusStacks ==
    [][(last'.op = "add_status")
        => LET old == player.status_manager[last'.name]
               new == player'.status_manager[last'.name]
           IN /\ new.on
              /\ \A n \in StatusNames \ {last'.name} :
                    player'.status_manager[n] = player.status_manager[n]
              /\ IF old.on
                 THEN /\ new.amount = old.amount + last'.n
                      /\ new.duration =
                           (IF /\ last'.duration > 0
                               /\ (old.duration = -1 \/ old.duration > last'.duration)
                            THEN last'.duration ELSE old.duration)
                      /\ \/ new.duration = old.duration
                         \/ /\ new.duration > 0
                            /\ (old.duration = -1 \/ new.duration < old.duration)
                 ELSE /\ new.amount = last'.n
                      /\ new.duration = last'.duration]_vars

\* 3 was added for 3 turns to an entry of amount 2 with 2 turns left: the amount
\* is 5 and the duration still 2.
C15_Witness ==
    /\ last.op = "add_status"
    /\ last.n = 3
    /\ last.duration = 3
    /\ player.status_manager[last.name].amount = 5
    /\ player.status_manager[last.name].duration = 2

\* C16: every enemy that acts in the enemy phase of round t = turn_number is
\* given, from t and its HP when its turn has started: Defend with block
\* 8 + t div 3 if t mod 3 = 0 and 2 * current_hp < max_hp; otherwise Buff with
\* strength 2 if t mod 4 = 0; otherwise Attack with damage 6 + t div 2.  Defend
\* comes before Buff, Debuff is never chosen, and every enemy of the phase is
\* given its intent from the same t.
C16_ScriptedIntent ==
    [][(last'.op = "end_player_turn" /\ state = PLAYER_TURN)
        => \A a \in 1..Len(acted') :
             LET i == acted'[a].enemy
                 t == turn_number
                 e == Enemy_start_turn(enemies[i])
                 e1 == enemies'[i]
             IN /\ e1.intent # "debuff"
                /\ IF t % 3 = 0 /\ 2 * e.current_hp < e.max_hp
                   THEN e1.intent = "defend" /\ e1.intent_block = 8 + (t \div 3)
                   ELSE IF t % 4 = 0
                   THEN e1.intent = "buff" /\ e1.intent_damage = 2
                   ELSE e1.intent = "attack" /\ e1.intent_damage = 6 + (t \div 2)]_vars

\* Round 12, a multiple of 3 and of 4: the enemy, below half of its HP, has
\* defended for 12 block; it had gathered strength in rounds 4 and 8.
C16_Witness ==
    /\ last.op = "end_player_turn"
    /\ turn_number = 13
    /\ Len(acted) = 1
    /\ enemies[1].intent = "defend"
    /\ enemies[1].intent_block = 12
    /\ get_status_amount(enemies[1].status_manager, STRENGTH) = 4

\* C17: in every reachable state every character's block is >= 0, whatever
\* status amounts it holds, a negative Dexterity included.
C17_BlockNonNegative ==
    /\ player.block >= 0
    /\ \A i \in 1..Len(enemies) : enemies[i].block >= 0

\* C18: for a card that is not upgraded get_cost, get_damage and get_block
\* return the base cost, damage and block; for an upgraded card they return
\* max(0, cost - upgrade_cost_reduction), damage + upgrade_damage and
\* block + upgrade_block.  get_cost is never negative, and reading a value
\* leaves the card as it is.
C18_EffectiveValues ==
    [][(last'.op \in {"get_cost", "get_damage", "get_block"})
        => LET card == deck.draw_pile[1]
               reduced == card.cost - card.upgrade_cost_reduction
           IN /\ deck' = deck
              /\ last'.op = "get_cost" =>
                   /\ last'.ret >= 0
                   /\ last'.ret = (IF ~card.upgraded THEN card.cost
                                   ELSE IF reduced > 0 THEN reduced ELSE 0)
              /\ last'.op = "get_damage" =>
                   last'.ret = (IF ~card.upgraded THEN card.damage
                                ELSE card.damage + card.upgrade_damage)
              /\ last'.op = "get_block" =>
                   last'.ret = (IF ~card.upgraded THEN card.block
                                ELSE card.block + card.upgrade_block)]_vars

\* The cost of an upgraded card whose reduction is larger than its cost was
\* read as 0.
C18_Witness ==
    /\ last.op = "get_cost"
    /\ layer = "card"
    /\ deck.draw_pile[1].upgraded
    /\ deck.draw_pile[1].cost > 0
    /\ deck.draw_pile[1].upgrade_cost_reduction > deck.draw_pile[1].cost
    /\ last.ret = 0

\* C19: the combat state is always one of WaitingForInput, PlayerTurn,
\* EnemyTurn, Victory and Defeat, never Ended, and it is WaitingForInput
\* exactly while turn_number = 0.
C19_StateSet ==
    /\ state \in {WAITING_FOR_INPUT, PLAYER_TURN, ENEMY_TURN, VICTORY, DEFEAT}
    /\ state # ENDED
    /\ (state = WAITING_FOR_INPUT) <=> (turn_number = 0)

\* Before the first start_player_turn a play was refused: the combat is still
\* waiting, at turn 0.
C19_Witness ==
    /\ state = WAITING_FOR_INPUT
    /\ turn_number = 0
    /\ last.op = "play_card"
    /\ last.message = "Not player turn"
    /\ enemies # <<>>

\* The amount of status `name` that a play of the card grants.
Granted(card, name) ==
    IF \E it \in card.status_effects : it[1] = name
    THEN (CHOOSE it \in card.status_effects : it[1] = name)[2]
    ELSE 0

C23_HandSizes ==
    LET N == get_total_cards(deck)
    IN /\ last.op = "Combat" => Len(deck.hand) = Min(5, N)
       /\ (last.op = "start_player_turn" /\ turn_number = 1)
            => Len(deck.hand) = Min(10, N)
       /\ (last.op = "end_player_turn" /\ last.success /\ state = PLAYER_TURN)
            => Len(deck.hand) = Min(5, N)

\* The first turn of a player with an 11-card deck has started: 10 cards in
\* hand.
C23_Witness ==
    /\ last.op = "start_player_turn"
    /\ turn_number = 1
    /\ get_total_cards(deck) = 11
    /\ Len(deck.hand) = 10

\* The entries of kind `kind` in the list of log entries lg.
Entries(lg, kind) == {k \in 1..Len(lg) : lg[k].kind = kind}

\* C24: in the enemy phase every enemy performs the intent the scripted AI has
\* computed for it in that phase from the turn number and its HP.  The intent
\* it was constructed with or given earlier, a Debuff for one, is overwritten
\* before execute_intent and never carried out: the effects logged are those of
\* the computed intents and the player receives no status.
C24_IntentOverwritten ==
    [][(last'.op = "end_player_turn" /\ state = PLAYER_TURN)
        => LET t == turn_number
               Computed(i) ==
                   LET e == Enemy_start_turn(enemies[i])
                   IN IF t % 3 = 0 /\ 2 * e.current_hp < e.max_hp THEN "defend"
                      ELSE IF t % 4 = 0 THEN "buff" ELSE "attack"
               Doing(intent) ==
                   {a \in 1..Len(acted') : Computed(acted'[a].enemy) = intent}
           IN /\ \A a \in 1..Len(acted') :
                   LET i == acted'[a].enemy
                   IN /\ enemies'[i].intent = Computed(i)
                      /\ enemies'[i].intent_description # ""
                      /\ Computed(i) = "attack" =>
                           enemies'[i].intent_damage = 6 + (t \div 2)
              /\ Cardinality(Entries(log', "damage")) = Cardinality(Doing("attack"))
              /\ Cardinality(Entries(log', "block")) = Cardinality(Doing("defend"))
              /\ Cardinality(Entries(log', "status")) = Cardinality(Doing("buff"))
              /\ \A k \in Entries(log', "status") : log'[k].who # player.name
              /\ player'.status_manager[VULNERABLE] = player.status_manager[VULNERABLE]]_vars

\* The second enemy, constructed with a Debuff intent, has had its turn: it
\* attacked, and the player is not vulnerable.
C24_Witness ==
    /\ last.op = "end_player_turn"
    /\ Len(acted) = 2
    /\ acted[2].enemy = 2
    /\ enemies[2].name = "Goblin 2"
    /\ enemies[2].intent = "attack"
    /\ acted[2].player_hp < acted[1].player_hp
    /\ ~has_status(player.status_manager, VULNERABLE)

\* C25: turn_number is 0 after construction and goes up by exactly 1 with each
\* start_player_turn, the one that ends an enemy phase included; play_card, a
\* rejected end_player_turn and an end_player_turn that ends in Victory or
\* Defeat leave it as it is; it never goes down.
C25_TurnNumber ==
    /\ (last.op = "Combat" => turn_number = 0)
    /\ [][/\ turn_number' >= turn_number
          /\ last'.op = "start_player_turn" => turn_number' = turn_number + 1
          /\ last'.op = "play_card" => turn_number' = turn_number
          /\ last'.op = "end_player_turn" =>
               turn_number' = (IF last'.success /\ state' = PLAYER_TURN
                               THEN turn_number + 1 ELSE turn_number)]_vars

\* The player was defeated in the enemy phase of the second turn, and the turn
\* number is still 2.
C25_Witness ==
    /\ last.op = "end_player_turn"
    /\ last.success
    /\ state = DEFEAT
    /\ turn_number = 2
    /\ player.current_hp = 0

\* C26: start_turn with a Poison amount p > 0 takes min(p, current_hp) from
\* current_hp, leaves block alone and leaves the Poison entry in place with the
\* amount p - 1, also when that is 0; with p <= 0 neither HP nor any status
\* changes.  The countdown therefore stops at 0 and never removes the entry.
C26_PoisonCountdown ==
    [][(last'.op = "start_turn")
        => LET p == get_status_amount(player.status_manager, POISON)
           IN /\ player'.block = player.block
              /\ IF p > 0
                 THEN /\ player'.current_hp
                           = player.current_hp - Min(p, player.current_hp)
                      /\ has_status(player'.status_manager, POISON)
                      /\ get_status_amount(player'.status_manager, POISON) = p - 1
                      /\ p - 1 >= 0
                      /\ \A n \in StatusNames \ {POISON} :
                            player'.status_manager[n] = player.status_manager[n]
                 ELSE /\ player'.current_hp = player.current_hp
                      /\ player'.status_manager = player.status_manager]_vars

\* Poison 2 has counted down to 0 over two turns, for 3 HP in all, and the entry
\* is still there.
C26_Witness ==
    /\ last.op = "start_turn"
    /\ has_status(player.status_manager, POISON)
    /\ get_status_amount(player.status_manager, POISON) = 0
    /\ player.current_hp = player.max_hp - 3

\* C27: tick_all lowers by 1 the duration of every entry with duration > 0,
\* deletes in the same pass every entry whose duration thereby reaches 0 and
\* leaves the other entries as they are; after it every entry that remains has
\* duration -1 or duration >= 1, whatever duration it was created with, 0
\* included.
C27_TickAll ==
    [][(last'.op = "tick_all")
        => \A n \in StatusNames :
             LET old == player.status_manager[n]
                 new == player'.status_manager[n]
             IN /\ IF old.on /\ old.duration > 0
                   THEN IF old.duration = 1 THEN ~new.on
                        ELSE new = [old EXCEPT !.duration = @ - 1]
                   ELSE new = old
                /\ new.on => (new.duration = -1 \/ new.duration >= 1)]_vars

C29_ReshuffleOnlyDiscard ==
    [][(last'.op = "draw")
        => LET had == Len(deck.draw_pile)
               got == Len(last'.drawn)
               reshuffled == last'.n > had /\ deck.discard_pile # <<>>
           IN /\ deck'.exhaust_pile = deck.exhaust_pile
              /\ deck'.hand = deck.hand \o last'.drawn
              /\ IF reshuffled
                 THEN /\ deck'.discard_pile = <<>>
                      /\ SubSeq(last'.drawn, 1, had) = deck.draw_pile
                      /\ \A c \in DeckCardSet :
                           Count(SubSeq(last'.drawn, had + 1, got), c)
                               + Count(deck'.draw_pile, c)
                             = Count(deck.discard_pile, c)
                 ELSE /\ deck'.discard_pile = deck.discard_pile
                      /\ last'.drawn = SubSeq(deck.draw_pile, 1, got)
                      /\ deck'.draw_pile = SubSeq(deck.draw_pile, got + 1, had)]_vars

\* A draw has reshuffled a discard pile of two cards and taken one of them,
\* with a card in the exhaust pile: the exhaust pile still holds its card.
C29_Witness ==
    /\ last.op = "draw"
    /\ last.flag
    /\ deck.discard_pile = <<>>
    /\ Len(deck.draw_pile) = 1
    /\ Len(deck.exhaust_pile) = 1
    /\ Len(deck.hand) = 1

\* C30: remove_card(card) removes at most one card: draw pile + discard pile +
\* hand shrink by 1 if the card is in one of them and by 0 if not, also when
\* several zones hold copies of the card; the exhaust pile is unchanged.
C30_RemoveAtMostOne ==
    [][(last'.op = "remove_card")
        => LET held == \/ ListHas(deck.draw_pile, last'.card)
                       \/ ListHas(deck.discard_pile, last'.card)
                       \/ ListHas(deck.hand, last'.card)
           IN /\ deck'.exhaust_pile = deck.exhaust_pile
              /\ get_total_cards(deck')
                   = get_total_cards(deck) - (IF held THEN 1 ELSE 0)]_vars

\* C31: no operation of the deck takes a card off the exhaust pile (what was
\* on it stays on it, in order), and reset_for_combat leaves the exhaust pile
\* as it was, empties the hand and the discard pile and leaves in the draw
\* pile exactly the cards that were in the draw pile, the discard pile and the
\* hand.
C31_ExhaustOnlyGrows ==
    [][(layer = "deck")
        => /\ Len(deck'.exhaust_pile) >= Len(deck.exhaust_pile)
           /\ SubSeq(deck'.exhaust_pile, 1, Len(deck.exhaust_pile)) = deck.exhaust_pile
           /\ (last'.op = "reset_for_combat")
                => /\ deck'.exhaust_pile = deck.exhaust_pile
                   /\ deck'.hand = <<>>
                   /\ deck'.discard_pile = <<>>
                   /\ \A c \in DeckCardSet :
                        Count(deck'.draw_pile, c)
                          = Count(deck.draw_pile \o deck.discard_pile \o deck.hand, c)
                   /\ Len(deck'.draw_pile) = get_total_cards(deck)]_vars

\* A reset that merged two cards into the draw pile with a card exhausted.
C31_Witness ==
    /\ layer = "deck"
    /\ last.op = "reset_for_combat"
    /\ deck.exhaust_pile # <<>>
    /\ Len(deck.draw_pile) = 2
    /\ deck.draw_pile[1] # deck.draw_pile[2]

\* C32: the card built by from_dict from the dict to_dict gave has the name,
\* the type, the upgraded flag and the effective cost, damage and block of the
\* card serialized, and to_dict of it gives the same dict; its upgrade deltas
\* are 0, so that if it is not upgraded, upgrading it changes none of its
\* effective values.
C32_RoundTrip ==
    [][(last'.op = "from_dict")
        => LET c == deck.draw_pile[1]
               r == deck'.draw_pile[1]
           IN /\ r.name = c.name
              /\ r.card_type = c.card_type
              /\ r.upgraded = c.upgraded
              /\ get_cost(r) = get_cost(c)
              /\ get_damage(r) = get_damage(c)
              /\ get_block(r) = get_block(c)
              /\ to_dict(r) = last.data
              /\ last.data = to_dict(c)
              /\ r.upgrade_damage = 0
              /\ r.upgrade_block = 0
              /\ r.upgrade_cost_reduction = 0
              /\ ~r.upgraded
                   => /\ get_cost(upgrade(r)) = get_cost(r)
                      /\ get_damage(upgrade(r)) = get_damage(r)
                      /\ get_block(upgrade(r)) = get_block(r)]_vars

\* A card rebuilt from the dict of an upgraded card whose damage and block
\* both had an upgrade delta: the base values it has are above any base value
\* a host gives.
C32_Witness ==
    /\ layer = "card"
    /\ last.op = "from_dict"
    /\ deck.draw_pile[1].upgraded
    /\ deck.draw_pile[1].damage > MaxCardValue
    /\ deck.draw_pile[1].block > MaxCardValue
    /\ deck.draw_pile[1].card_type = POWER

\* C33: a successful play of a damaging card deals the damage that the
\* target's Vulnerable amount from before the play gives, x1.5 only when that
\* amount was positive; the Vulnerable the card itself grants is on the target
\* afterwards and counts for later hits only.
C33_GrantsAfterDamage ==
    [][(last'.op = "play_card" /\ last'.success /\ get_damage(last'.card) > 0)
        => LET k == PyIndex(enemies, last'.n)
               t == enemies[k]
               dmg == apply_damage_modifier(player, get_damage(last'.card))
               amt == IF get_status_amount(t.status_manager, VULNERABLE) > 0
                      THEN IntMul(dmg, 3, 2) ELSE dmg
               dealt == Max(0, amt - t.block)
           IN /\ enemies'[k].current_hp = Max(0, t.current_hp - dealt)
              /\ \E e \in Entries(log', "damage") : log'[e].amount = dealt
              /\ get_status_amount(enemies'[k].status_manager, VULNERABLE)
                   = get_status_amount(t.status_manager, VULNERABLE)
                       + Granted(last'.card, VULNERABLE)]_vars

\* Bash was played on the Orc at full health: it took 8, not 12, and is
\* Vulnerable 2 now.
C33_Witness ==
    /\ last.op = "play_card"
    /\ last.success
    /\ last.card = Bash
    /\ Len(enemies) = 2
    /\ enemies[PyIndex(enemies, last.n)].name = "Orc 1"
    /\ enemies[PyIndex(enemies, last.n)].current_hp = 12
    /\ get_status_amount(enemies[PyIndex(enemies, last.n)].status_manager, VULNERABLE) = 2

\* C34: in a successful play of a card that draws, the played card goes to the
\* end of the discard pile after the draw: the hand ends with one card less
\* plus the cards drawn, a reshuffle the draw needs takes the discard pile of
\* before the play and not the played card, and no card is lost or made.
C34_NeverDrawsItself ==
    [][(last'.op = "play_card" /\ last'.success /\ last'.card.card_draw > 0)
        => LET c == last'.card
               reshuffled == /\ c.card_draw > Len(deck.draw_pile)
                             /\ deck.discard_pile # <<>>
           IN /\ \E e \in Entries(log', "draw") :
                   /\ Len(deck'.hand) = Len(deck.hand) - 1 + log'[e].amount
                   /\ log'[e].amount
                        = Min(c.card_draw,
                              Len(deck.draw_pile) + Len(deck.discard_pile))
              /\ deck'.discard_pile
                   = (IF reshuffled THEN <<>> ELSE deck.discard_pile) \o <<c>>
              /\ \A x \in DeckCards(deck) :
                   Count(deck'.hand \o deck'.draw_pile, x)
                     = Count(deck.hand \o deck.draw_pile, x)
                         - (IF x = c THEN 1 ELSE 0)
                         + (IF reshuffled THEN Count(deck.discard_pile, x) ELSE 0)]_vars

\* Shrug It Off was played after Strike with the draw pile empty: its draw
\* reshuffled the discard pile, which held the Strike alone, and drew it.
C34_Witness ==
    /\ last.op = "play_card"
    /\ last.success
    /\ last.card = ShrugItOff
    /\ player.energy = 1
    /\ deck.hand = <<Strike>>
    /\ deck.draw_pile = <<>>
    /\ deck.discard_pile = <<ShrugItOff>>
    /\ \E e \in Entries(log, "draw") : log[e].amount = 1

\* C35: every enemy that executes its intent in an enemy turn has HP above 0
\* when it does, an enemy that its Poison has brought to 0 HP in the start_turn
\* of that enemy turn included.
C35_DeadEnemiesDoNotAct ==
    \A a \in 1..Len(acted) : acted[a].enemy_hp > 0

\* C36: in the state Victory every enemy has 0 HP, and in the state Defeat the
\* player has 0 HP.
C36_TerminalMeansDead ==
    /\ state = VICTORY => \A i \in 1..Len(enemies) : enemies[i].current_hp = 0
    /\ state = DEFEAT => player.current_hp = 0

\* Victory over the Orc and the Goblin, both at 0 HP, with the player alive.
C36_Witness ==
    /\ layer = "combat"
    /\ state = VICTORY
    /\ Len(enemies) = 2
    /\ enemies[1].current_hp = 0
    /\ enemies[2].current_hp = 0
    /\ player.current_hp > 0

\* C37: in the state PlayerTurn the player has more than 0 HP, whatever
\* brought the HP down (an enemy, the player's Poison at the start of the turn,
\* the player's Burn at its end), and so has the player in the state Victory.
C37_PlayerTurnMeansAlive ==
    state \in {PLAYER_TURN, VICTORY} => player.current_hp > 0

\* C38: the player's energy is never below 0: a play that succeeds was made
\* with at least the card's effective cost in energy, that cost is 0 or more,
\* the play takes it away and adds the card's energy gain, and a
\* start_player_turn leaves the energy at max_energy.
C38_EnergyNonNegative ==
    /\ [](player.energy >= 0)
    /\ [][/\ (last'.op = "play_card" /\ last'.success)
               => /\ get_cost(last'.card) >= 0
                  /\ player.energy >= get_cost(last'.card)
                  /\ player'.energy
                       = player.energy - get_cost(last'.card)
                           + Max(0, last'.card.energy_gain)
          /\ (last'.op = "start_player_turn")
               => player'.energy = player'.max_energy]_vars

\* Barricade was played with 3 energy: none is left.
C38_Witness ==
    /\ last.op = "play_card"
    /\ last.success
    /\ last.card = Barricade
    /\ player.energy = 0

\* The status entries of the player and of the enemies.
Managers == {player.status_manager} \cup {enemies[i].status_manager : i \in 1..Len(enemies)}

\* C39: every status entry that a combat puts on the player or on an enemy (a
\* card's grant, an enemy's Buff or Debuff) has the indefinite duration -1, and
\* no command removes or lowers one: the entry is still there afterwards with
\* no smaller amount.  Poison and Burn, which their own hooks count down, are
\* left out of the second part.
C39_GrantsAreIndefinite ==
    /\ [](\A m \in Managers : \A n \in StatusNames : m[n].on => m[n].duration = -1)
    /\ [][\A n \in StatusNames \ {POISON, BURN} :
            /\ player.status_manager[n].on
                 => /\ player'.status_manager[n].on
                    /\ player'.status_manager[n].amount >= player.status_manager[n].amount
            /\ \A i \in 1..Len(enemies) :
                 enemies[i].status_manager[n].on
                   => /\ enemies'[i].status_manager[n].on
                      /\ enemies'[i].status_manager[n].amount
                           >= enemies[i].status_manager[n].amount]_vars

\* The Orc carries the Vulnerable 2 of a Bash into the next turn: its end_turn
\* has ticked and the entry is as it was granted.
C39_Witness ==
    /\ last.op = "end_player_turn"
    /\ last.success
    /\ state = PLAYER_TURN
    /\ Len(enemies) = 2
    /\ enemies[1].status_manager[VULNERABLE] = StatusEffect(2, -1)
    /\ enemies[1].current_hp = 12

\* The player's turn with an enemy alive and no status entry on anybody.
Besieged ==
    /\ state = PLAYER_TURN
    /\ \E i \in 1..Len(enemies) : is_alive(enemies[i])
    /\ \A m \in Managers : m = StatusManager

\* C40: when it is the player's turn, an enemy is alive and nobody carries a
\* status entry, and the host from then on only ends the turn, the combat
\* reaches Defeat.
C40_EndTurnsLeadToDefeat == Besieged ~> (state = DEFEAT)

\* A player who held out against a lone enemy, through its Defend and Buff
\* turns, until the tenth turn.
C40_Witness ==
    /\ state = DEFEAT
    /\ last.op = "end_player_turn"
    /\ turn_number >= 9
    /\ Len(enemies) = 1
    /\ get_status_amount(enemies[1].status_manager, STRENGTH) = 4

====
